---- MODULE Spec2Model ----
(***************************************************************************)
(* A model of wencan/copier (copier.go): Copier.Copy, deepFields,          *)
(* fieldName, indirect, indirectType and set, over a heap of typed cells   *)
(* and a catalogue of record types.                                        *)
(*                                                                         *)
(* Representation.                                                         *)
(*   type    a sequence of strings: <<"int">>, <<"string">>, <<"Flat">>,   *)
(*           <<"*", "int">>, <<"[]", "*", "Flat">>                         *)
(*   name    a sequence of one-character strings (field names, tag keys,   *)
(*           tag values), so that fieldName can split them as the code does*)
(*   value   int: an integer; string: a sequence of code points;           *)
(*           pointer: [nil, loc, path]; slice: a sequence of values;       *)
(*           struct: the sequence of its field values, by field index      *)
(*   heap    a sequence of cells [type, val]; a reflect.Value is a place   *)
(*           [valid, addr, ro, loc, path] in it                            *)
(***************************************************************************)
EXTENDS Integers, Sequences, FiniteSets, TLC

(* Bounds of the model. *)
MaxInt == 1
MaxLen == 2
MaxPtrDepth == 1

VARIABLES heap, heap0, sc, stack, result, err, trace

vars == <<heap, heap0, sc, stack, result, err, trace>>

(***************************************************************************)
(* Types                                                                   *)
(***************************************************************************)
TInt == <<"int">>
TString == <<"string">>

PtrTo(t) == <<"*">> \o t

SliceOf(t) == <<"[]">> \o t

Kind(t) ==
    CASE t = <<>> -> "invalid"
      [] t[1] = "*" -> "ptr"
      [] t[1] = "[]" -> "slice"
      [] t[1] = "int" -> "int"
      [] t[1] = "string" -> "string"
      [] OTHER -> "struct"

ElemType(t) == Tail(t)

\* A declared field: reflect.StructField. Owner names the declaring record; it
\* is an annotation the operations below never read.
Fld(nm, ty, anon, tag, owner) ==
    [Name |-> nm, Type |-> ty, Anonymous |-> anon, Tag |-> tag, Owner |-> owner]

NoTag == <<>>

TagK(v) == << <<<<"k">>, v>> >>

\* The catalogue of record types the model copies between.
StructFields(s) ==
    CASE s = "Flat" ->
           << Fld(<<"N","m">>, TString, FALSE, NoTag, s),
              Fld(<<"A","g">>, TInt, FALSE, NoTag, s) >>
      [] s = "Flat2" ->
           << Fld(<<"N","m">>, TString, FALSE, NoTag, s),
              Fld(<<"A","g">>, TString, FALSE, NoTag, s) >>
      [] s = "Inner" ->
           << Fld(<<"I","D">>, TInt, FALSE, NoTag, s),
              Fld(<<"N","t">>, TString, FALSE, NoTag, s) >>
      [] s = "Outer" ->
           << Fld(<<"I","D">>, TInt, FALSE, NoTag, s),
              Fld(<<"I","n","n","e","r">>, <<"Inner">>, TRUE, NoTag, s) >>
      [] s = "Outer2" ->
           << Fld(<<"I","n","n","e","r">>, <<"Inner">>, TRUE, NoTag, s),
              Fld(<<"I","D">>, TInt, FALSE, NoTag, s) >>
      [] s = "PS" ->
           << Fld(<<"P">>, PtrTo(TInt), FALSE, NoTag, s),
              Fld(<<"Q">>, TInt, FALSE, NoTag, s) >>
      [] s = "MS" ->
           << Fld(<<"A">>, TString, FALSE, NoTag, s),
              Fld(<<"B">>, TString, FALSE, NoTag, s) >>
      [] s = "MD" ->
           << Fld(<<"A">>, PtrTo(TInt), FALSE, NoTag, s),
              Fld(<<"B">>, <<"Box">>, FALSE, NoTag, s) >>
      [] s = "ME" ->
           << Fld(<<"A">>, PtrTo(PtrTo(TInt)), FALSE, NoTag, s) >>
      [] s = "XI" ->
           << Fld(<<"I","D">>, TInt, FALSE, NoTag, s) >>
      [] s = "XS" ->
           << Fld(<<"I","D">>, TInt, FALSE, TagK(<<"-">>), s),
              Fld(<<"X","I">>, <<"XI">>, TRUE, NoTag, s) >>
      [] s = "XD" ->
           << Fld(<<"I","D">>, TInt, FALSE, NoTag, s) >>
      [] s = "XP" ->
           << Fld(<<"I","D">>, TInt, FALSE, TagK(<<"-">>), s),
              Fld(<<"N","m">>, TString, FALSE, NoTag, s) >>
      [] s = "GS" ->
           << Fld(<<"F","o","o">>, PtrTo(TInt), FALSE, TagK(<<"B","a","r">>), s),
              Fld(<<"A","l","t">>, PtrTo(TInt), FALSE, NoTag, s) >>
      [] s = "GD" ->
           << Fld(<<"B","a","r">>, PtrTo(TInt), FALSE, NoTag, s) >>
      [] s = "HS" ->
           << Fld(<<"V">>, TInt, FALSE, NoTag, s) >>
      [] s = "HD" ->
           << Fld(<<"S","t">>, TInt, FALSE, NoTag, s) >>
      [] s = "TS" ->
           << Fld(<<"T","o","t">>, TInt, FALSE, NoTag, s) >>
      [] s = "TD" ->
           << Fld(<<"S","u","m">>, TInt, FALSE, NoTag, s) >>
      [] s = "ES" ->
           << Fld(<<"A">>, TInt, FALSE, TagK(<<"x","=","a">>), s),
              Fld(<<"M">>, TInt, FALSE,
                  TagK(<<"n","=","n","m",","," ","x","=","q">>), s) >>
      [] s = "ED" ->
           << Fld(<<"B">>, TInt, FALSE, TagK(<<"y","=","b">>), s),
              Fld(<<"W">>, TInt, FALSE, TagK(<<"n","=","n","m">>), s) >>
      [] s = "Rec" ->
           << Fld(<<"R","e","c">>, PtrTo(<<"Rec">>), TRUE, NoTag, s),
              Fld(<<"X">>, TInt, FALSE, NoTag, s) >>
      [] s = "Box" ->
           << Fld(<<"V">>, TInt, FALSE, NoTag, s) >>
      [] s = "NS" ->
           << Fld(<<"I","n">>, <<"Flat">>, FALSE, NoTag, s) >>
      [] s = "ND" ->
           << Fld(<<"I","n">>, <<"Flat2">>, FALSE, NoTag, s) >>
      [] s = "UF" ->
           << Fld(<<"N","m">>, TString, FALSE, NoTag, s),
              Fld(<<"a","g">>, TInt, FALSE, NoTag, s) >>
      [] OTHER -> << >>

StructNames ==
    {"Flat", "Flat2", "Inner", "Outer", "Outer2", "PS", "MS", "MD", "ME", "XI",
     "XS", "XD", "XP", "GS", "GD", "HS", "HD", "TS", "TD", "ES", "ED", "Rec",
     "Box", "NS", "ND", "UF"}

\* A method of a record type: its name, its parameter and result types (<<>>
\* for none), whether its receiver is a pointer, and the field it returns
\* (a getter) or stores its argument in (a setter).
Mth(nm, in, out, ptr, fld) ==
    [Name |-> nm, In |-> in, Out |-> out, PtrRecv |-> ptr, Field |-> fld]

Methods(s) ==
    CASE s = "GS" -> { Mth(<<"B","a","r">>, <<>>, <<PtrTo(TInt)>>, FALSE, 2) }
      [] s = "HS" -> { Mth(<<"S","t">>, <<>>, <<TInt>>, TRUE, 1) }
      [] s = "TD" -> { Mth(<<"T","o","t">>, <<TInt>>, <<>>, TRUE, 1) }
      [] OTHER -> {}

\* The record types whose pointer implements sql.Scanner.
ScannerTypes == {"Box"}

UpperChars ==
    {"A","B","C","D","E","F","G","H","I","J","K","L","M","N","O","P","Q","R",
     "S","T","U","V","W","X","Y","Z"}

\* reflect.StructField.PkgPath = "": the field is exported.
Exported(f) == f.Name # <<>> /\ f.Name[1] \in UpperChars

FieldType(t, i) == StructFields(t[1])[i].Type

NumField(t) == Len(StructFields(t[1]))

(***************************************************************************)
(* strings.Split, strings.ReplaceAll, reflect.StructTag.Get                *)
(***************************************************************************)
RECURSIVE SplitFrom(_, _, _, _)
SplitFrom(s, sep, i, cur) ==
    IF i > Len(s) THEN <<cur>>
    ELSE IF s[i] = sep THEN <<cur>> \o SplitFrom(s, sep, i + 1, <<>>)
    ELSE SplitFrom(s, sep, i + 1, Append(cur, s[i]))

Split(s, sep) == SplitFrom(s, sep, 1, <<>>)

ReplaceAll(s, old) == SelectSeq(s, LAMBDA c : c # old)

TagGet(tag, key) ==
    LET hits == {i \in 1..Len(tag) : tag[i][1] = key}
    IN  IF hits = {} THEN <<>>
        ELSE tag[CHOOSE i \in hits : \A j \in hits : i <= j][2]

(***************************************************************************)
(* indirectType, fieldName, deepFields                                     *)
(***************************************************************************)
RECURSIVE indirectType(_)
indirectType(reflectType) ==
    IF Kind(reflectType) = "ptr" \/ Kind(reflectType) = "slice"
    THEN indirectType(ElemType(reflectType))
    ELSE reflectType

\* The loop of fieldName over the comma-separated pieces of the tag value:
\* the value half of the last pair whose key half is tagField.
RECURSIVE PairName(_, _, _, _)
PairName(keys, tagField, i, name) ==
    IF i > Len(keys) THEN name
    ELSE LET pair == Split(keys[i], "=")
         IN  IF Len(pair) = 2 /\ pair[1] = tagField
             THEN PairName(keys, tagField, i + 1, pair[2])
             ELSE PairName(keys, tagField, i + 1, name)

fieldName(tagKey, field) ==
    LET tagParts == Split(tagKey, ".")
        key0 == tagParts[1]
        tagField == IF Len(tagParts) >= 2 THEN tagParts[2] ELSE <<>>
    IN  IF key0 = <<>> THEN [name |-> field.Name, skip |-> FALSE]
        ELSE LET key == ReplaceAll(TagGet(field.Tag, key0), " ")
             IN  IF key = <<>> THEN [name |-> field.Name, skip |-> FALSE]
                 ELSE IF key = <<"-">> THEN [name |-> <<>>, skip |-> TRUE]
                 ELSE IF tagField = <<>>
                      THEN [name |-> Split(key, ",")[1], skip |-> FALSE]
                 ELSE [name |-> PairName(Split(key, ","), tagField, 1, <<>>),
                       skip |-> FALSE]

EmptyMap == <<>>

\* deepFields, with the record types whose deepFields calls are still open:
\* entering one of them again repeats the same call, so the recursion has no
\* end and the call overflows the stack; ok is then FALSE.
RECURSIVE deepFieldsIn(_, _, _)
RECURSIVE FieldsLoop(_, _, _, _, _)

\* FieldsLoop without the test of line 164: an embedded record's field
\* replaces the entry of its name.
FieldsLoopEmbeddedWins(tagKey, t, i, fields, open) ==
    IF i > NumField(t) THEN [ok |-> TRUE, fields |-> fields]
    ELSE LET v == StructFields(t[1])[i]
         IN  IF v.Anonymous
             THEN LET anonymous == deepFieldsIn(tagKey, v.Type, open)
                  IN  IF ~anonymous.ok THEN anonymous
                      ELSE FieldsLoop(tagKey, t, i + 1,
                                      anonymous.fields @@ fields, open)
             ELSE LET n == fieldName(tagKey, v)
                  IN  IF n.skip THEN FieldsLoop(tagKey, t, i + 1, fields, open)
                      ELSE FieldsLoop(tagKey, t, i + 1,
                                      (n.name :> v) @@ fields, open)

\* Lines 159-175, from field i on.
FieldsLoop(tagKey, t, i, fields, open) ==
    IF i > NumField(t) THEN [ok |-> TRUE, fields |-> fields]
    ELSE LET v == StructFields(t[1])[i]
         IN  IF v.Anonymous
             THEN LET anonymous == deepFieldsIn(tagKey, v.Type, open)
                  IN  IF ~anonymous.ok THEN anonymous
                      ELSE FieldsLoop(tagKey, t, i + 1,
                                      fields @@ anonymous.fields, open)
             ELSE LET n == fieldName(tagKey, v)
                  IN  IF n.skip THEN FieldsLoop(tagKey, t, i + 1, fields, open)
                      ELSE FieldsLoop(tagKey, t, i + 1,
                                      (n.name :> v) @@ fields, open)

deepFieldsIn(tagKey, reflectType, open) ==
    LET t == indirectType(reflectType)
    IN  IF Kind(t) # "struct" THEN [ok |-> TRUE, fields |-> EmptyMap]
        ELSE IF t[1] \in open THEN [ok |-> FALSE, fields |-> EmptyMap]
        ELSE FieldsLoop(tagKey, t, 1, EmptyMap, open \cup {t[1]})

deepFields(tagKey, reflectType) == deepFieldsIn(tagKey, reflectType, {})

(***************************************************************************)
(* reflect.Type.FieldByName: the shallowest field of that name, none when  *)
(* two fields of one depth bear it.  A scan is a record type reached       *)
(* through embedded fields and the index path that reaches it.             *)
(***************************************************************************)
NotFound == [found |-> FALSE, index |-> <<>>]

\* The matches of one level, as index paths.
LevelMatches(name, scans) ==
    UNION {{scans[k].index \o <<i>> :
              i \in {j \in 1..Len(StructFields(scans[k].typ)) :
                       StructFields(scans[k].typ)[j].Name = name}} :
           k \in 1..Len(scans)}

\* The embedded records of one scan, as scans of the next level.
RECURSIVE EmbeddedOf(_, _, _)
EmbeddedOf(scan, i, seen) ==
    IF i > Len(StructFields(scan.typ)) THEN <<>>
    ELSE LET f == StructFields(scan.typ)[i]
             ntyp == IF Kind(f.Type) = "ptr" THEN ElemType(f.Type) ELSE f.Type
         IN  IF f.Anonymous /\ Kind(ntyp) = "struct" /\ ntyp[1] \notin seen
             THEN <<[typ |-> ntyp[1], index |-> scan.index \o <<i>>]>>
                  \o EmbeddedOf(scan, i + 1, seen \cup {ntyp[1]})
             ELSE EmbeddedOf(scan, i + 1, seen)

RECURSIVE NextLevel(_, _, _)
NextLevel(scans, k, seen) ==
    IF k > Len(scans) THEN <<>>
    ELSE LET e == EmbeddedOf(scans[k], 1, seen)
         IN  e \o NextLevel(scans, k + 1, seen \cup {e[j].typ : j \in 1..Len(e)})

RECURSIVE FieldByNameLevel(_, _, _)
FieldByNameLevel(name, scans, visited) ==
    LET live == SelectSeq(scans, LAMBDA s : s.typ \notin visited)
        m == LevelMatches(name, live)
    IN  IF live = <<>> THEN NotFound
        ELSE IF Cardinality(m) = 1
             THEN [found |-> TRUE, index |-> CHOOSE x \in m : TRUE]
        ELSE IF Cardinality(m) > 1 THEN NotFound
        ELSE FieldByNameLevel(name, NextLevel(live, 1, {}),
                              visited \cup {live[k].typ : k \in 1..Len(live)})

TypeFieldByName(t, name) ==
    FieldByNameLevel(name, <<[typ |-> t[1], index |-> <<>>]>>, {})

(***************************************************************************)
(* Values, the heap, reflect.Value                                         *)
(***************************************************************************)
Nil == [nil |-> TRUE, loc |-> 0, path |-> <<>>]

PtrAt(l, p) == [nil |-> FALSE, loc |-> l, path |-> p]

\* reflect.Zero
RECURSIVE Zero(_)
Zero(t) ==
    CASE Kind(t) = "int" -> 0
      [] Kind(t) = "string" -> <<>>
      [] Kind(t) = "ptr" -> Nil
      [] Kind(t) = "slice" -> <<>>
      [] OTHER -> [i \in 1..NumField(t) |-> Zero(FieldType(t, i))]

Invalid == [valid |-> FALSE, addr |-> FALSE, ro |-> FALSE, loc |-> 0, path |-> <<>>]

Place(l, p, a) == [valid |-> TRUE, addr |-> a, ro |-> FALSE, loc |-> l, path |-> p]

RECURSIVE TypeOfPath(_, _)
TypeOfPath(t, path) ==
    IF path = <<>> THEN t
    ELSE IF Kind(t) = "struct"
         THEN TypeOfPath(FieldType(t, Head(path)), Tail(path))
    ELSE TypeOfPath(ElemType(t), Tail(path))

\* reflect.Value.Type (<<>> for the zero Value)
TypeOf(h, v) == IF v.valid THEN TypeOfPath(h[v.loc].type, v.path) ELSE <<>>

KindOf(h, v) == Kind(TypeOf(h, v))

RECURSIVE ValAt(_, _)
ValAt(val, path) ==
    IF path = <<>> THEN val ELSE ValAt(val[Head(path)], Tail(path))

Read(h, v) == ValAt(h[v.loc].val, v.path)

RECURSIVE Upd(_, _, _)
Upd(val, path, x) ==
    IF path = <<>> THEN x
    ELSE [val EXCEPT ![Head(path)] = Upd(val[Head(path)], Tail(path), x)]

\* reflect.Value.Set
Write(h, v, x) == [h EXCEPT ![v.loc].val = Upd(h[v.loc].val, v.path, x)]

\* A new cell: reflect.New's pointee, or the copy an interface value holds.
Alloc(h, t, x) == Append(h, [type |-> t, val |-> x])

\* reflect.Value.Elem of a pointer
Elem(h, v) ==
    LET p == Read(h, v)
    IN  IF p.nil THEN Invalid
        ELSE [valid |-> TRUE, addr |-> TRUE, ro |-> v.ro, loc |-> p.loc,
              path |-> p.path]

\* reflect.Value.Index of a slice (from 1 here)
Index(v, i) == [v EXCEPT !.path = v.path \o <<i>>, !.addr = TRUE]

RECURSIVE indirect(_, _)
indirect(h, reflectValue) ==
    IF KindOf(h, reflectValue) = "ptr" THEN indirect(h, Elem(h, reflectValue))
    ELSE reflectValue

CanAddr(v) == v.valid /\ v.addr

CanSet(v) == v.valid /\ v.addr /\ ~v.ro

\* reflect.Value.FieldByIndex: panic is TRUE on a nil embedded pointer.
RECURSIVE FieldByIndex(_, _, _, _)
FieldByIndex(h, v, index, first) ==
    IF index = <<>> THEN [rv |-> v, panic |-> FALSE]
    ELSE LET t == TypeOf(h, v)
             through == ~first /\ Kind(t) = "ptr" /\ Kind(ElemType(t)) = "struct"
         IN  IF through /\ Read(h, v).nil THEN [rv |-> Invalid, panic |-> TRUE]
             ELSE LET w == IF through THEN Elem(h, v) ELSE v
                      f == StructFields(TypeOf(h, w)[1])[Head(index)]
                      x == [w EXCEPT !.path = w.path \o <<Head(index)>>,
                                     !.ro = w.ro \/ (~Exported(f) /\ ~f.Anonymous)]
                  IN  FieldByIndex(h, x, Tail(index), FALSE)

\* reflect.Value.FieldByName: panics on a Value that is no struct.
FieldByName(h, v, name) ==
    IF KindOf(h, v) # "struct" THEN [rv |-> Invalid, panic |-> TRUE]
    ELSE LET f == TypeFieldByName(TypeOf(h, v), name)
         IN  IF ~f.found THEN [rv |-> Invalid, panic |-> FALSE]
             ELSE FieldByIndex(h, v, f.index, TRUE)

\* reflect.Value.MethodByName on v (viaPtr: on v.Addr()): the methods found.
MethodByName(h, v, name, viaPtr) ==
    IF KindOf(h, v) # "struct" THEN {}
    ELSE {m \in Methods(TypeOf(h, v)[1]) : m.Name = name /\ (viaPtr \/ ~m.PtrRecv)}

(***************************************************************************)
(* Assignability and conversion of the types of the model                  *)
(***************************************************************************)
AssignableTo(ft, tt) == ft = tt

\* Identical underlying struct types, tags ignored.
SameUnderlying(s1, s2) ==
    LET f1 == StructFields(s1)
        f2 == StructFields(s2)
    IN  /\ Len(f1) = Len(f2)
        /\ \A i \in 1..Len(f1) :
              /\ f1[i].Name = f2[i].Name
              /\ f1[i].Type = f2[i].Type
              /\ f1[i].Anonymous = f2[i].Anonymous

ConvertibleTo(ft, tt) ==
    \/ ft = tt
    \/ Kind(ft) = "int" /\ Kind(tt) = "string"
    \/ Kind(ft) = "struct" /\ Kind(tt) = "struct" /\ SameUnderlying(ft[1], tt[1])
    \/ /\ Kind(ft) = "ptr" /\ Kind(tt) = "ptr"
       /\ Kind(ElemType(ft)) = "struct" /\ Kind(ElemType(tt)) = "struct"
       /\ SameUnderlying(ElemType(ft)[1], ElemType(tt)[1])

\* reflect.Value.Convert: an int becomes the string of that code point.
Convert(x, ft, tt) ==
    IF Kind(ft) = "int" /\ Kind(tt) = "string" THEN <<x>> ELSE x

IsScanner(t) == Kind(t) = "struct" /\ t[1] \in ScannerTypes

\* Box.Scan: an int is stored in V, anything else is refused.
Scan(h, to, from) ==
    IF Kind(TypeOf(h, from)) = "int"
    THEN [heap |-> Write(h, [to EXCEPT !.path = to.path \o <<1>>], Read(h, from)),
          failed |-> FALSE]
    ELSE [heap |-> h, failed |-> TRUE]

(***************************************************************************)
(* set                                                                     *)
(***************************************************************************)
RECURSIVE set(_, _, _)

\* Lines 241-254, to being the pointee when the destination is a pointer.
setValue(h, to, from, ft, tt) ==
    IF ConvertibleTo(ft, tt)
    THEN IF from.ro THEN [heap |-> h, res |-> "panic"]
         ELSE [heap |-> Write(h, to, Convert(Read(h, from), ft, tt)), res |-> "true"]
    ELSE IF IsScanner(tt)
    THEN IF from.ro THEN [heap |-> h, res |-> "panic"]
         ELSE [heap |-> Scan(h, to, from).heap,
               res |-> IF Scan(h, to, from).failed THEN "false" ELSE "true"]
    ELSE IF Kind(ft) = "ptr" THEN set(h, to, Elem(h, from))
    ELSE [heap |-> h, res |-> "false"]

\* Lines 235-237: a nil destination pointer is given a new pointee.
AllocIfNil(h, to) ==
    IF Read(h, to).nil
    THEN Write(Alloc(h, ElemType(TypeOf(h, to)), Zero(ElemType(TypeOf(h, to)))),
               to, PtrAt(Len(h) + 1, <<>>))
    ELSE h

\* Line 238 and on: to = to.Elem()
setPointee(h, to, from) ==
    setValue(h, Elem(h, to), from, TypeOf(h, from), ElemType(TypeOf(h, to)))

\* set with line 232 short of its IsNil test: any pointer source empties a
\* pointer destination.
setNilFromAnyPointer(h, to, from) ==
    IF ~from.valid THEN [heap |-> h, res |-> "true"]
    ELSE IF KindOf(h, to) = "ptr"
    THEN IF KindOf(h, from) = "ptr"
         THEN [heap |-> Write(h, to, Zero(TypeOf(h, to))), res |-> "true"]
         ELSE setPointee(AllocIfNil(h, to), to, from)
    ELSE setValue(h, to, from, TypeOf(h, from), TypeOf(h, to))

set(h, to, from) ==
    IF ~from.valid THEN [heap |-> h, res |-> "true"]
    ELSE IF KindOf(h, to) = "ptr"
    THEN IF KindOf(h, from) = "ptr" /\ Read(h, from).nil
         THEN [heap |-> Write(h, to, Zero(TypeOf(h, to))), res |-> "true"]
         ELSE setPointee(AllocIfNil(h, to), to, from)
    ELSE setValue(h, to, from, TypeOf(h, from), TypeOf(h, to))

(***************************************************************************)
(* The calls the model makes: the copier's tag keys, the two record types, *)
(* how each argument is passed, and the values they hold                   *)
(***************************************************************************)
NoKey == <<>>

KeyK == <<"k">>

KeyKN == <<"k", ".", "n">>

Scn(tk, fk, tt, ft, tf, ff, ti) ==
    [toKey |-> tk, fromKey |-> fk, toT |-> tt, fromT |-> ft, toForm |-> tf,
     fromForm |-> ff, toInit |-> ti]

\* How an argument reaches Copy: a pointer to the value, the value itself, a nil
\* pointer, a pointer to a nil pointer, or the nil interface.
ToForms == {"ptr", "value", "nilptr", "ptrnilptr", "nil"}

FromForms == {"value", "ptr", "nilptr", "nil"}

Pairs(tk, fk, pairs, ti) ==
    {Scn(tk, fk, p[1], p[2], "ptr", ff, ti) : p \in pairs, ff \in {"value", "ptr"}}

Scenarios ==
    {Scn(NoKey, NoKey, <<"Flat">>, <<"Flat">>, tf, ff, "any") :
        tf \in ToForms, ff \in FromForms}
    \cup Pairs(NoKey, NoKey,
               {<<t, t>> : t \in {<<"Inner">>, <<"Outer">>, <<"Outer2">>,
                                  <<"PS">>, <<"UF">>}}, "zero")
    \cup Pairs(NoKey, NoKey,
               {<<SliceOf(<<"XD">>), SliceOf(<<"XD">>)>>,
                <<SliceOf(PtrTo(<<"XD">>)), SliceOf(<<"XD">>)>>,
                <<SliceOf(<<"XD">>), SliceOf(PtrTo(<<"XD">>))>>,
                <<SliceOf(<<"XD">>), <<"XD">>>>,
                <<<<"XD">>, SliceOf(<<"XD">>)>>}, "any")
    \cup Pairs(KeyK, KeyK,
               {<<<<"XD">>, <<"XS">>>>, <<<<"XS">>, <<"XI">>>>,
                <<<<"XP">>, <<"XP">>>>, <<<<"XD">>, <<"XP">>>>}, "any")
    \cup Pairs(NoKey, NoKey,
               {<<<<"Outer2">>, <<"Outer">>>>, <<<<"Outer">>, <<"Outer2">>>>,
                <<<<"PS">>, <<"PS">>>>, <<<<"MD">>, <<"MS">>>>,
                <<<<"ME">>, <<"MS">>>>, <<<<"HD">>, <<"HS">>>>,
                <<<<"TD">>, <<"TS">>>>, <<<<"Rec">>, <<"Rec">>>>,
                <<<<"ND">>, <<"NS">>>>, <<TInt, TInt>>, <<TString, TInt>>},
               "any")
    \cup Pairs(NoKey, KeyK, {<<<<"GD">>, <<"GS">>>>}, "any")
    \cup Pairs(KeyKN, KeyKN, {<<<<"ED">>, <<"ES">>>>}, "any")
    \cup Pairs(KeyK, KeyK, {<<<<"ED">>, <<"ES">>>>}, "any")

\* The values of a type, pointers as <<>> (nil) or <<pointee>>, followed
\* through at most fuel pointers.
RECURSIVE TreeVals(_, _)
RECURSIVE TreeFields(_, _, _)
TreeFields(t, i, fuel) ==
    IF i > NumField(t) THEN {<<>>}
    ELSE {<<x>> \o rest : x \in TreeVals(FieldType(t, i), fuel),
                          rest \in TreeFields(t, i + 1, fuel)}

TreeVals(t, fuel) ==
    CASE Kind(t) = "int" -> 0..MaxInt
      [] Kind(t) = "string" -> {<<>>} \cup {<<c>> : c \in 1..MaxInt}
      [] Kind(t) = "ptr" ->
           {<<>>} \cup (IF fuel = 0 THEN {}
                        ELSE {<<x>> : x \in TreeVals(ElemType(t), fuel - 1)})
      [] Kind(t) = "slice" ->
           UNION {[1..n -> TreeVals(ElemType(t), fuel)] : n \in 0..MaxLen}
      [] OTHER -> TreeFields(t, 1, fuel)

ItemType(t, i) == IF Kind(t) = "struct" THEN FieldType(t, i) ELSE ElemType(t)

\* A value laid out in the heap, its pointees in cells of their own.
RECURSIVE Materialize(_, _, _)
RECURSIVE MatItems(_, _, _, _, _)
MatItems(h, t, trees, i, acc) ==
    IF i > Len(trees) THEN [heap |-> h, val |-> acc]
    ELSE LET r == Materialize(h, ItemType(t, i), trees[i])
         IN  MatItems(r.heap, t, trees, i + 1, Append(acc, r.val))

Materialize(h, t, tree) ==
    CASE Kind(t) \in {"int", "string"} -> [heap |-> h, val |-> tree]
      [] Kind(t) = "ptr" ->
           IF tree = <<>> THEN [heap |-> h, val |-> Nil]
           ELSE LET r == Materialize(h, ElemType(t), tree[1])
                IN  [heap |-> Alloc(r.heap, ElemType(t), r.val),
                     val |-> PtrAt(Len(r.heap) + 1, <<>>)]
      [] OTHER -> MatItems(h, t, tree, 1, <<>>)

\* The value side of the reverse: what a stored value holds, pointers followed.
RECURSIVE TreeOf(_, _, _)
TreeOf(h, t, x) ==
    CASE Kind(t) \in {"int", "string"} -> x
      [] Kind(t) = "ptr" ->
           IF x.nil THEN <<>>
           ELSE <<TreeOf(h, ElemType(t), ValAt(h[x.loc].val, x.path))>>
      [] OTHER -> [i \in 1..Len(x) |-> TreeOf(h, ItemType(t, i), x[i])]

\* An argument of Copy: the reflect.Value of the interface value, and the
\* place of the record (or slice, or scalar) it stands for.
BuildArg(h, t, tree, form) ==
    CASE form = "nil" -> [heap |-> h, arg |-> Invalid, obj |-> Invalid]
      [] form = "nilptr" ->
           [heap |-> Alloc(h, PtrTo(t), Nil), arg |-> Place(Len(h) + 1, <<>>, FALSE),
            obj |-> Invalid]
      [] form = "ptrnilptr" ->
           [heap |-> Alloc(Alloc(h, PtrTo(t), Nil), PtrTo(PtrTo(t)),
                           PtrAt(Len(h) + 1, <<>>)),
            arg |-> Place(Len(h) + 2, <<>>, FALSE), obj |-> Invalid]
      [] form = "value" ->
           LET r == Materialize(h, t, tree)
           IN  [heap |-> Alloc(r.heap, t, r.val),
                arg |-> Place(Len(r.heap) + 1, <<>>, FALSE),
                obj |-> Place(Len(r.heap) + 1, <<>>, FALSE)]
      [] OTHER ->
           LET r == Materialize(h, t, tree)
               o == Len(r.heap) + 1
           IN  [heap |-> Alloc(Alloc(r.heap, t, r.val), PtrTo(t), PtrAt(o, <<>>)),
                arg |-> Place(o + 1, <<>>, FALSE), obj |-> Place(o, <<>>, TRUE)]

ArgTrees(t, form, init) ==
    IF form \in {"nil", "nilptr", "ptrnilptr"} THEN {<<>>}
    ELSE IF init = "zero" THEN {TreeOf(<<>>, t, Zero(t))}
    ELSE TreeVals(t, MaxPtrDepth)

(***************************************************************************)
(* One call of Copier.Copy, nested calls on a stack of frames              *)
(***************************************************************************)
NewFrame(toValue, fromValue) ==
    [pc |-> "entry", toValue |-> toValue, fromValue |-> fromValue,
     to |-> Invalid, from |-> Invalid, fromType |-> <<>>, toType |-> <<>>,
     isSlice |-> FALSE, amount |-> 1, i |-> 0, dest |-> Invalid,
     source |-> Invalid, fromTypeFields |-> EmptyMap, toTypeFields |-> EmptyMap,
     pendF |-> {}, pendT |-> {}]

Init ==
    \E s \in Scenarios :
      \E tv \in ArgTrees(s.toT, s.toForm, s.toInit) :
        \E fv \in ArgTrees(s.fromT, s.fromForm, "any") :
          LET a == BuildArg(<<>>, s.toT, tv, s.toForm)
              b == BuildArg(a.heap, s.fromT, fv, s.fromForm)
          IN  /\ heap = b.heap
              /\ heap0 = b.heap
              /\ sc = [toKey |-> s.toKey, fromKey |-> s.fromKey, toT |-> s.toT,
                       fromT |-> s.fromT, toForm |-> s.toForm,
                       fromForm |-> s.fromForm, toArg |-> a.arg, fromArg |-> b.arg,
                       toObj |-> a.obj, fromObj |-> b.obj]
              /\ stack = <<NewFrame(a.arg, b.arg)>>
              /\ result = "running"
              /\ err = "nil"
              /\ trace = {}

Top == stack[Len(stack)]

SetTop(f) == [stack EXCEPT ![Len(stack)] = f]

Running == result = "running" /\ stack # <<>>

\* return: an error ends every enclosing call too (lines 102-104).
Return(e) ==
    IF e = "nil" /\ Len(stack) > 1
    THEN /\ stack' = SubSeq(stack, 1, Len(stack) - 1)
         /\ UNCHANGED <<result, err>>
    ELSE /\ stack' = <<>>
         /\ result' = "returned"
         /\ err' = e

\* A panic, or the stack overflow of a recursion without end: the call never
\* returns.
Crash(how) ==
    /\ result' = how
    /\ UNCHANGED <<stack, err>>

\* EntryCase with the checks of lines 40 and 45 in the other order.
EntryCaseSourceFirst(h, toValue, fromValue) ==
    LET from == indirect(h, fromValue)
        to == indirect(h, toValue)
    IN  IF ~from.valid THEN "invalid"
        ELSE IF ~CanAddr(to) THEN "unaddressable"
        ELSE IF /\ Kind(indirectType(TypeOf(h, from))) # "struct"
                /\ AssignableTo(TypeOf(h, from), TypeOf(h, to))
             THEN "assign"
        ELSE IF \/ Kind(indirectType(TypeOf(h, from))) # "struct"
                \/ Kind(indirectType(TypeOf(h, to))) # "struct"
             THEN "skip"
        ELSE "loop"

\* Lines 36-61: which way the head of Copy goes.
EntryCase(h, toValue, fromValue) ==
    LET from == indirect(h, fromValue)
        to == indirect(h, toValue)
    IN  IF ~CanAddr(to) THEN "unaddressable"
        ELSE IF ~from.valid THEN "invalid"
        ELSE IF /\ Kind(indirectType(TypeOf(h, from))) # "struct"
                /\ AssignableTo(TypeOf(h, from), TypeOf(h, to))
             THEN "assign"
        ELSE IF \/ Kind(indirectType(TypeOf(h, from))) # "struct"
                \/ Kind(indirectType(TypeOf(h, to))) # "struct"
             THEN "skip"
        ELSE "loop"

CopyEntry ==
    /\ Running
    /\ Top.pc = "entry"
    /\ LET f == Top
           from == indirect(heap, f.fromValue)
           to == indirect(heap, f.toValue)
           c == EntryCase(heap, f.toValue, f.fromValue)
       IN  CASE c = "unaddressable" -> Return("unaddressable") /\ UNCHANGED heap
             [] c = "invalid" -> Return("nil") /\ UNCHANGED heap
             [] c = "assign" ->
                  /\ heap' = Write(heap, to, Read(heap, from))
                  /\ Return("nil")
             [] c = "skip" -> Return("nil") /\ UNCHANGED heap
             [] OTHER ->
                  /\ stack' = SetTop([f EXCEPT
                        !.pc = "loop", !.to = to, !.from = from,
                        !.fromType = indirectType(TypeOf(heap, from)),
                        !.toType = indirectType(TypeOf(heap, to)),
                        !.isSlice = (KindOf(heap, to) = "slice"),
                        !.amount = IF KindOf(heap, to) = "slice"
                                      /\ KindOf(heap, from) = "slice"
                                   THEN Len(Read(heap, from)) ELSE 1,
                        !.i = 0])
                  /\ UNCHANGED <<heap, result, err>>
    /\ UNCHANGED <<heap0, sc, trace>>

\* Line 152, at the end of the loop of line 70.
CopyReturn ==
    /\ Running
    /\ Top.pc = "loop"
    /\ Top.i >= Top.amount
    /\ Return("nil")
    /\ UNCHANGED <<heap, heap0, sc, trace>>

\* Lines 70-93: the next element's source and dest, and the two name maps.
LoopHead ==
    /\ Running
    /\ Top.pc = "loop"
    /\ Top.i < Top.amount
    /\ LET f == Top
           source == IF f.isSlice /\ KindOf(heap, f.from) = "slice"
                     THEN indirect(heap, Index(f.from, f.i + 1))
                     ELSE indirect(heap, f.from)
           h1 == IF f.isSlice THEN Alloc(heap, f.toType, Zero(f.toType)) ELSE heap
           dest == IF f.isSlice THEN indirect(h1, Place(Len(h1), <<>>, TRUE))
                   ELSE indirect(h1, f.to)
           ff == deepFields(sc.fromKey, f.fromType)
           tf == deepFields(sc.toKey, f.toType)
       IN  /\ heap' = h1
           /\ IF ~source.valid
              THEN /\ stack' = SetTop([f EXCEPT !.pc = "append", !.dest = dest,
                                                !.source = source])
                   /\ UNCHANGED <<result, err>>
              ELSE IF ~ff.ok \/ ~tf.ok
              THEN Crash("overflow")
              ELSE /\ stack' = SetTop([f EXCEPT
                         !.pc = "field", !.dest = dest, !.source = source,
                         !.fromTypeFields = ff.fields, !.toTypeFields = tf.fields,
                         !.pendF = DOMAIN ff.fields, !.pendT = DOMAIN tf.fields])
                   /\ UNCHANGED <<result, err>>
    /\ UNCHANGED <<heap0, sc, trace>>

Where(v) == <<v.loc, v.path>>

Event(pass, name, to, from, res) ==
    [pass |-> pass, name |-> name, to |-> Where(to), from |-> Where(from),
     depth |-> Len(stack), iter |-> Top.i, res |-> res]

\* Lines 111-121: the destination method named after the source name, called
\* with the source field.
SetterStep(f, name, fromField) ==
    LET ms == {m \in MethodByName(heap, f.dest, name, CanAddr(f.dest)) :
                 /\ Len(m.In) = 1
                 /\ AssignableTo(TypeOf(heap, fromField), m.In[1])}
    IN  IF ms = {}
        THEN /\ stack' = SetTop([f EXCEPT !.pendF = f.pendF \ {name}])
             /\ UNCHANGED <<heap, result, err, trace>>
        ELSE IF fromField.ro
        THEN Crash("panic") /\ UNCHANGED <<heap, trace>>
        ELSE LET m == CHOOSE m \in ms : TRUE
                 slot == [f.dest EXCEPT !.path = f.dest.path \o <<m.Field>>]
             IN  /\ heap' = Write(heap, slot, Read(heap, fromField))
                 /\ trace' = trace \cup {Event("setter", name, slot, fromField, "true")}
                 /\ stack' = SetTop([f EXCEPT !.pendF = f.pendF \ {name}])
                 /\ UNCHANGED <<result, err>>

\* Lines 101-107: r is what set(toField, fromField) did; when it failed, the
\* nested Copy(toField.Addr().Interface(), fromField.Interface()) is entered.
FieldSet(f, name, fromField, toField, r) ==
    /\ trace' = trace \cup {Event("field", name, toField, fromField, r.res)}
    /\ IF r.res = "panic" \/ (r.res = "false" /\ fromField.ro)
       THEN heap' = r.heap /\ Crash("panic")
       ELSE IF r.res = "false"
       THEN /\ heap' = Alloc(r.heap, TypeOf(r.heap, fromField), Read(r.heap, fromField))
            /\ stack' = Append(SetTop([f EXCEPT !.pendF = f.pendF \ {name}]),
                               NewFrame(toField, Place(Len(r.heap) + 1, <<>>, FALSE)))
            /\ UNCHANGED <<result, err>>
       ELSE /\ heap' = r.heap
            /\ stack' = SetTop([f EXCEPT !.pendF = f.pendF \ {name}])
            /\ UNCHANGED <<result, err>>

\* Lines 98-109: tf is dest.FieldByName(toTypeField.Name).
FieldTo(f, name, fromField, tf) ==
    IF tf.panic THEN Crash("panic") /\ UNCHANGED <<heap, trace>>
    ELSE IF ~tf.rv.valid THEN SetterStep(f, name, fromField)
    ELSE IF ~CanSet(tf.rv)
    THEN /\ stack' = SetTop([f EXCEPT !.pendF = f.pendF \ {name}])
         /\ UNCHANGED <<heap, result, err, trace>>
    ELSE FieldSet(f, name, fromField, tf.rv, set(heap, tf.rv, fromField))

\* Lines 96-122: ff is source.FieldByName(field.Name).
FieldOn(f, name, ff) ==
    IF ff.panic THEN Crash("panic") /\ UNCHANGED <<heap, trace>>
    ELSE IF ~ff.rv.valid
    THEN /\ stack' = SetTop([f EXCEPT !.pendF = f.pendF \ {name}])
         /\ UNCHANGED <<heap, result, err, trace>>
    ELSE IF name \in DOMAIN f.toTypeFields
    THEN FieldTo(f, name, ff.rv,
                 FieldByName(heap, f.dest, f.toTypeFields[name].Name))
    ELSE SetterStep(f, name, ff.rv)

\* Lines 95-123, one source name of the range over fromTypeFields.
FieldStep ==
    /\ Running
    /\ Top.pc = "field"
    /\ \E name \in Top.pendF :
         FieldOn(Top, name,
                 FieldByName(heap, Top.source, Top.fromTypeFields[name].Name))
    /\ UNCHANGED <<heap0, sc>>

\* Lines 136-139: r is what set(toField, values[0]) did, values[0] being a
\* value of its own; its result is dropped.
MethodSet(f, name, toField, got, r) ==
    /\ heap' = r.heap
    /\ trace' = trace \cup {Event("method", name, toField, got, r.res)}
    /\ stack' = SetTop([f EXCEPT !.pendT = f.pendT \ {name}])
    /\ UNCHANGED <<result, err>>

\* Lines 136-138: h1 holds values[0] in its last cell.
MethodCall(f, name, toField, got, h1) ==
    MethodSet(f, name, toField, got, set(h1, toField, Place(Len(h1), <<>>, FALSE)))

\* Lines 134-141: ms are the source methods of that name with no parameter
\* and one result, tf is dest.FieldByName(toTypefield.Name).
MethodTo(f, name, m, tf) ==
    IF tf.panic THEN Crash("panic") /\ UNCHANGED <<heap, trace>>
    ELSE IF ~CanSet(tf.rv)
    THEN /\ stack' = SetTop([f EXCEPT !.pendT = f.pendT \ {name}])
         /\ UNCHANGED <<heap, result, err, trace>>
    ELSE MethodCall(f, name, tf.rv,
                    [f.source EXCEPT !.path = f.source.path \o <<m.Field>>],
                   Alloc(heap, m.Out[1],
                         Read(heap, [f.source EXCEPT
                                       !.path = f.source.path \o <<m.Field>>])))

MethodOn(f, name, ms) ==
    IF ms = {}
    THEN /\ stack' = SetTop([f EXCEPT !.pendT = f.pendT \ {name}])
         /\ UNCHANGED <<heap, result, err, trace>>
    ELSE MethodTo(f, name, CHOOSE m \in ms : TRUE,
                  FieldByName(heap, f.dest, f.toTypeFields[name].Name))

\* Lines 126-142, one destination name of the range over toTypeFields.
MethodStep ==
    /\ Running
    /\ Top.pc = "field"
    /\ Top.pendF = {}
    /\ \E name \in Top.pendT :
         MethodOn(Top, name,
                  {m \in MethodByName(heap, Top.source, name, CanAddr(Top.source)) :
                      Len(m.In) = 0 /\ Len(m.Out) = 1})
    /\ UNCHANGED <<heap0, sc>>

\* appendDest putting the element built in front of the slice.
appendDestInFront(h, to, dest) ==
    IF AssignableTo(PtrTo(TypeOf(h, dest)), ElemType(TypeOf(h, to)))
    THEN Write(h, to, <<PtrAt(dest.loc, dest.path)>> \o Read(h, to))
    ELSE IF AssignableTo(TypeOf(h, dest), ElemType(TypeOf(h, to)))
    THEN Write(h, to, <<Read(h, dest)>> \o Read(h, to))
    ELSE h

\* Lines 145-149: the slice with the element built appended to it.
appendDest(h, to, dest) ==
    IF AssignableTo(PtrTo(TypeOf(h, dest)), ElemType(TypeOf(h, to)))
    THEN Write(h, to, Append(Read(h, to), PtrAt(dest.loc, dest.path)))
    ELSE IF AssignableTo(TypeOf(h, dest), ElemType(TypeOf(h, to)))
    THEN Write(h, to, Append(Read(h, to), Read(h, dest)))
    ELSE h

\* Lines 144-151: the element built is appended, and the loop goes on.
AppendStep ==
    /\ Running
    /\ \/ Top.pc = "append"
       \/ Top.pc = "field" /\ Top.pendF = {} /\ Top.pendT = {}
    /\ heap' = IF Top.isSlice THEN appendDest(heap, Top.to, Top.dest) ELSE heap
    /\ stack' = SetTop([Top EXCEPT !.pc = "loop", !.i = Top.i + 1])
    /\ UNCHANGED <<heap0, sc, result, err, trace>>

Next ==
    \/ CopyEntry
    \/ LoopHead
    \/ FieldStep
    \/ MethodStep
    \/ AppendStep
    \/ CopyReturn

Spec == Init /\ [][Next]_vars

(***************************************************************************)
(* What the properties below speak of                                      *)
(***************************************************************************)
\* The place an event names.
At(w) == Place(w[1], w[2], TRUE)

\* The place of field i of a record.
AttrPlace(obj, i) == <<obj.loc, obj.path \o <<i>>>>

\* The set calls of the outermost Copy between two records.
TopEvents ==
    IF Kind(sc.toT) # "struct" \/ Kind(sc.fromT) # "struct" THEN {}
    ELSE {e \in trace : e.depth = 1}

\* What a place held before the call, and what it holds now, pointers followed.
Before(w) == TreeOf(heap0, TypeOf(heap0, At(w)), Read(heap0, At(w)))

Now(w) == TreeOf(heap, TypeOf(heap, At(w)), Read(heap, At(w)))

\* The destination argument cannot be mutated in place: it is passed by value,
\* or it is a pointer chain that ends in nil.
DestUnmutable == sc.toForm \in {"value", "nilptr", "ptrnilptr", "nil"}

\* The directly declared fields of t whose external name is n.
DirectNamed(tagKey, t, n) ==
    {i \in 1..NumField(t) :
        /\ ~StructFields(t[1])[i].Anonymous
        /\ ~fieldName(tagKey, StructFields(t[1])[i]).skip
        /\ fieldName(tagKey, StructFields(t[1])[i]).name = n}

\* An embedded record of t contributes a field of external name n.
EmbeddedNamed(tagKey, t, n) ==
    \E i \in 1..NumField(t) :
        /\ StructFields(t[1])[i].Anonymous
        /\ deepFields(tagKey, StructFields(t[1])[i].Type).ok
        /\ n \in DOMAIN deepFields(tagKey, StructFields(t[1])[i].Type).fields

BothDeclare(tagKey, t, n) ==
    DirectNamed(tagKey, t, n) # {} /\ EmbeddedNamed(tagKey, t, n)

\* The directly declared fields of t that the tag key excludes, and those it
\* gives no name.
Excluded(tagKey, t) ==
    {i \in 1..NumField(t) :
        /\ ~StructFields(t[1])[i].Anonymous
        /\ fieldName(tagKey, StructFields(t[1])[i]).skip}

EmptyNamed(tagKey, t) ==
    {i \in 1..NumField(t) :
        /\ ~StructFields(t[1])[i].Anonymous
        /\ ~fieldName(tagKey, StructFields(t[1])[i]).skip
        /\ fieldName(tagKey, StructFields(t[1])[i]).name = <<>>}

\* The attributes of a record type, as index paths through its embedded
\* records, and the declaration an index path leads to.
RECURSIVE AttrPaths(_, _)
AttrPaths(t, prefix) ==
    UNION {IF StructFields(t[1])[i].Anonymous /\ Kind(StructFields(t[1])[i].Type) = "struct"
           THEN AttrPaths(StructFields(t[1])[i].Type, prefix \o <<i>>)
           ELSE {prefix \o <<i>>} : i \in 1..NumField(t)}

RECURSIVE FieldAt(_, _)
FieldAt(t, p) ==
    IF Len(p) = 1 THEN StructFields(t[1])[p[1]]
    ELSE FieldAt(StructFields(t[1])[p[1]].Type, Tail(p))

\* A field of the same name declared nearer the top hides the attribute.
Shadowed(t, p) == TypeFieldByName(t, FieldAt(t, p).Name) # [found |-> TRUE, index |-> p]

\* A record type without methods whose fields are integers, strings, pointers
\* to them, and records of that kind embedded by value.
RECURSIVE PlainShape(_)
PlainShape(t) ==
    /\ Kind(t) = "struct"
    /\ Methods(t[1]) = {}
    /\ \A i \in 1..NumField(t) :
          IF StructFields(t[1])[i].Anonymous
          THEN PlainShape(StructFields(t[1])[i].Type)
          ELSE /\ Kind(StructFields(t[1])[i].Type) # "slice"
               /\ Kind(indirectType(StructFields(t[1])[i].Type)) \in {"int", "string"}

\* The default copier, a record of some type, a zeroed record of the same type.
IdentityCall ==
    /\ sc.toT = sc.fromT
    /\ Kind(sc.toT) = "struct"
    /\ sc.toKey = NoKey /\ sc.fromKey = NoKey
    /\ sc.toForm = "ptr" /\ sc.fromForm \in {"value", "ptr"}
    /\ Read(heap0, sc.toObj) = Zero(sc.toT)

AttrNow(obj, t, p) ==
    TreeOf(heap, FieldAt(t, p).Type, ValAt(Read(heap, obj), p))

AttrBefore(obj, t, p) ==
    TreeOf(heap0, FieldAt(t, p).Type, ValAt(Read(heap0, obj), p))

\* A collection as destination, by pointer.
SliceCall ==
    /\ Kind(sc.toT) = "slice"
    /\ sc.toForm = "ptr" /\ sc.fromForm \in {"value", "ptr"}

\* The source elements, a single record being one element.
SourceElems ==
    IF Kind(sc.fromT) = "slice"
    THEN TreeOf(heap0, sc.fromT, Read(heap0, sc.fromObj))
    ELSE <<TreeOf(heap0, sc.fromT, Read(heap0, sc.fromObj))>>

SourceElemType == IF Kind(sc.fromT) = "slice" THEN ElemType(sc.fromT) ELSE sc.fromT

\* The destination element built from one source element: a record of the
\* element's record type with the source's fields, a zero record for a nil
\* source pointer, behind a pointer when the collection holds pointers.
BuiltFrom(x) ==
    LET rec == IF Kind(SourceElemType) = "ptr"
               THEN IF x = <<>> THEN TreeOf(<<>>, indirectType(sc.toT),
                                            Zero(indirectType(sc.toT)))
                    ELSE x[1]
               ELSE x
    IN  IF Kind(ElemType(sc.toT)) = "ptr" THEN <<rec>> ELSE rec

DestElemsBefore == TreeOf(heap0, sc.toT, Read(heap0, sc.toObj))

DestElemsNow == TreeOf(heap, sc.toT, Read(heap, sc.toObj))

(***************************************************************************)
(* Properties                                                              *)
(***************************************************************************)

(* C1: when the destination, all pointers followed, cannot be mutated in   *)
(* place, Copy returns the not-addressable error, whatever the source is   *)
(* (nil and invalid included), and changes neither argument: from the      *)
(* entry of the call the only step is that return.                         *)
C1_Unaddressable ==
    DestUnmutable =>
        /\ heap = heap0
        /\ trace = {}
        /\ \/ result = "returned" /\ err = "unaddressable"
           \/ result = "running" /\ Len(stack) = 1 /\ Top.pc = "entry"

C1_Witness ==
    /\ sc.toForm = "ptrnilptr"
    /\ sc.fromForm \in {"nil", "nilptr"}
    /\ result = "returned"
    /\ err = "unaddressable"

C3_ExactlyTheSourceElements ==
    (SliceCall /\ result = "returned") =>
        DestElemsNow = [i \in 1..Len(SourceElems) |-> BuiltFrom(SourceElems[i])]

(* C3, amended: the Copy returns without error and the collection holds    *)
(* the elements it held before, unchanged, followed by one new element for *)
(* each source element, in the source's order, built from that source      *)
(* element; the elements of a collection of pointers are new records.      *)
C3_Appended ==
    SliceCall =>
        /\ result \in {"running", "returned"}
        /\ result = "returned" =>
              /\ err = "nil"
              /\ DestElemsNow
                   = DestElemsBefore
                       \o [i \in 1..Len(SourceElems) |-> BuiltFrom(SourceElems[i])]
              /\ Kind(ElemType(sc.toT)) = "ptr" =>
                    \A i \in 1..Len(SourceElems) :
                       Read(heap, sc.toObj)[Len(DestElemsBefore) + i].loc > Len(heap0)

C3_Witness ==
    /\ SliceCall
    /\ result = "returned"
    /\ Kind(sc.fromT) = "slice"
    /\ Len(DestElemsBefore) = 1
    /\ Len(SourceElems) = 2
    /\ SourceElems[1] # SourceElems[2]
    /\ Len(DestElemsNow) = 3

(* C4: a field whose tag under the copier's key is "-" takes no part in    *)
(* the copy: no assignment reads an excluded source field, none writes an  *)
(* excluded destination field, and an excluded destination field keeps its *)
(* value.                                                                  *)
C4_Exclusion ==
    /\ \A e \in TopEvents :
          /\ \A i \in Excluded(sc.fromKey, sc.fromT) : e.from # AttrPlace(sc.fromObj, i)
          /\ \A i \in Excluded(sc.toKey, sc.toT) : e.to # AttrPlace(sc.toObj, i)
    /\ (Kind(sc.toT) = "struct" /\ sc.toObj.valid) =>
          \A i \in Excluded(sc.toKey, sc.toT) :
             Now(AttrPlace(sc.toObj, i)) = Before(AttrPlace(sc.toObj, i))

(* C5: when a record declares a field of external name N and embeds a      *)
(* record that contributes a field of that name, in either order, the name *)
(* map of deepFields holds the directly declared field for N, and the      *)
(* assignment Copy makes for N reads and writes the directly declared      *)
(* field.                                                                  *)
C5_EmbeddingPrecedence ==
    /\ \A k \in 1..Len(stack) :
          /\ \A n \in DOMAIN stack[k].toTypeFields :
                BothDeclare(sc.toKey, stack[k].toType, n) =>
                    \E i \in DirectNamed(sc.toKey, stack[k].toType, n) :
                       stack[k].toTypeFields[n] = StructFields(stack[k].toType[1])[i]
          /\ \A n \in DOMAIN stack[k].fromTypeFields :
                BothDeclare(sc.fromKey, stack[k].fromType, n) =>
                    \E i \in DirectNamed(sc.fromKey, stack[k].fromType, n) :
                       stack[k].fromTypeFields[n] = StructFields(stack[k].fromType[1])[i]
    /\ \A e \in TopEvents :
          e.pass = "field" =>
             /\ BothDeclare(sc.toKey, sc.toT, e.name) =>
                   \E i \in DirectNamed(sc.toKey, sc.toT, e.name) :
                      e.to = AttrPlace(sc.toObj, i)
             /\ BothDeclare(sc.fromKey, sc.fromT, e.name) =>
                   \E i \in DirectNamed(sc.fromKey, sc.fromT, e.name) :
                      e.from = AttrPlace(sc.fromObj, i)

C5_Witness ==
    /\ sc.toT = <<"Outer2">>
    /\ sc.fromT = <<"Outer">>
    /\ result = "returned"
    /\ \E e \in TopEvents :
          /\ e.name = <<"I", "D">>
          /\ e.to = AttrPlace(sc.toObj, 2)
          /\ e.from = AttrPlace(sc.fromObj, 1)
    /\ Before(AttrPlace(sc.fromObj, 1)) = 1
    /\ AttrBefore(sc.fromObj, sc.fromT, <<2, 1>>) = 0
    /\ Now(AttrPlace(sc.toObj, 2)) = 1

(* C6: when set was called for a matched pair whose source attribute was a *)
(* nil pointer and whose destination attribute was a pointer that held a   *)
(* value, the Copy that has returned has returned no error and the         *)
(* destination attribute is nil.                                           *)
C6_NilPropagation ==
    result = "returned" =>
        \A e \in TopEvents :
           ( /\ e.pass = "field"
             /\ KindOf(heap0, At(e.from)) = "ptr"
             /\ KindOf(heap0, At(e.to)) = "ptr"
             /\ Read(heap0, At(e.from)).nil
             /\ ~Read(heap0, At(e.to)).nil )
           => (err = "nil" /\ Read(heap, At(e.to)).nil)

(* C7: when set failed on a matched pair and the nested Copy has nothing   *)
(* to copy (the source attribute is no record), the Copy that has returned *)
(* has returned no error and the destination attribute holds what it held  *)
(* before the call.                                                        *)
C7_LeftUnset ==
    result = "returned" =>
        \A e \in TopEvents :
           ( /\ e.pass = "field"
             /\ e.res = "false"
             /\ Kind(indirectType(TypeOf(heap0, At(e.from)))) # "struct" )
           => (err = "nil" /\ Read(heap, At(e.to)) = Read(heap0, At(e.to)))

(* C8: a destination attribute that the field pass assigned from a source  *)
(* field is not assigned again by the method pass of the same element.     *)
C8_PassOrder ==
    \A e1 \in trace : \A e2 \in trace :
       ~ ( /\ e1.pass = "field" /\ e1.res = "true"
           /\ e2.pass = "method"
           /\ e1.depth = e2.depth /\ e1.iter = e2.iter
           /\ e1.to = e2.to )

(* C9: a field that the alias spec gives the empty name is never matched:  *)
(* no assignment reads such a source field or writes such a destination    *)
(* field, and such a destination field keeps its value.                    *)
C9_EmptyNameInvisible ==
    /\ \A e \in TopEvents :
          /\ \A i \in EmptyNamed(sc.fromKey, sc.fromT) : e.from # AttrPlace(sc.fromObj, i)
          /\ \A i \in EmptyNamed(sc.toKey, sc.toT) : e.to # AttrPlace(sc.toObj, i)
    /\ (Kind(sc.toT) = "struct" /\ sc.toObj.valid) =>
          \A i \in EmptyNamed(sc.toKey, sc.toT) :
             Now(AttrPlace(sc.toObj, i)) = Before(AttrPlace(sc.toObj, i))

(* C10: a Copy call on finite, acyclic values ends by returning: it        *)
(* neither panics nor overflows the stack; and a nested Copy is entered    *)
(* only for a matched pair on which set failed.                            *)
C10_Termination ==
    /\ result \in {"running", "returned"}
    /\ \A k \in 2..Len(stack) :
          \E e \in trace :
             /\ e.pass = "field" /\ e.res = "false"
             /\ e.depth = k - 1
             /\ e.to = Where(stack[k].toValue)

====
